---------------------------- MODULE Spec2Model ----------------------------
(***************************************************************************)
(* Model of explore_pesticide_data.py: the data-exploration script that    *)
(* lists data/, probes each file with a fixed chain of pandas readers,     *)
(* analyses the first file that decodes, and writes two reports and a CSV  *)
(* sample.                                                                 *)
(*                                                                         *)
(* A text cell is represented by its length in characters, a numeric cell  *)
(* by its value, a missing cell by NULL.  A column is named by its         *)
(* position, a file by its position in the directory listing.              *)
(***************************************************************************)
EXTENDS Integers, Sequences, FiniteSets, TLC

(* ------------------------------ bounds -------------------------------- *)
MaxFiles == 2       \* files in data/ (control-flow listings)
MaxCols == 6        \* columns of a short dataset
SmallRows == 3      \* rows of a short dataset: 0..SmallRows
MaxRows == 101      \* rows of a long dataset: MaxRows-2..MaxRows
WideCols == 2       \* columns of a long dataset

(* ------------------------- program constants -------------------------- *)
PreviewSamples == 2     \* analyze_dataframe: dropna().head(2)
ReportTextCols == 5     \* save_report: text_columns[:5]
ReportSamples == 3      \* save_report: dropna().head(3)
ProseSamples == 2       \* save_report: dropna().head(2)
ProseTrunc == 200       \* save_report: str(sample)[:200]
SampleRows == 100       \* main: df.head(100)

NULL == -1
None == [none |-> TRUE]
NoFormat == "None"

Min(a, b) == IF a < b THEN a ELSE b

\* format tags in the order try_read_file attempts the readers
Tags == <<"parquet", "csv", "excel", "parquet.gzip">>
TagSet == {Tags[i] : i \in 1..Len(Tags)}

(* ----------------------------- datasets ------------------------------- *)
\* What a file decodes to: a row count and, per column, how it is filled.
\*   "int64"  numeric column, no missing value
\*   "full"   object column, every row holds a string
\*   "sparse" object column, odd rows missing, even rows hold a string
Kinds == {"int64", "full", "sparse"}

Layouts(n) == UNION {[1..k -> Kinds] : k \in 0..n}

Datasets ==
    {[nrows |-> r, kinds |-> k] : r \in 0..SmallRows, k \in Layouts(MaxCols)}
    \cup
    {[nrows |-> r, kinds |-> k] : r \in (MaxRows-2)..MaxRows, k \in Layouts(WideCols)}

SampleData == [nrows |-> 2, kinds |-> <<"int64", "full">>]

Cell(kind, r) ==
    CASE kind = "int64" -> r
      [] kind = "full" -> 150 * r
      [] kind = "sparse" -> IF r % 2 = 1 THEN NULL ELSE 150 * r

\* the DataFrame a reader returns for file content d
DataFrame(d) ==
    [nrows |-> d.nrows,
     dtypes |-> [c \in 1..Len(d.kinds) |->
                    IF d.kinds[c] = "int64" THEN "int64" ELSE "object"],
     data |-> [c \in 1..Len(d.kinds) |->
                    [r \in 1..d.nrows |-> Cell(d.kinds[c], r)]]]

(* ------------------------ DataFrame operations ------------------------ *)
Columns(frame) == [c \in 1..Len(frame.dtypes) |-> c]     \* list(df.columns)
Dropna(s) == SelectSeq(s, LAMBDA v : v # NULL)           \* Series.dropna()
head(s, n) == SubSeq(s, 1, Min(n, Len(s)))               \* .head(n)
Count(s) == Len(Dropna(s))                               \* Series.count()
Truncate(v, n) == IF v = NULL THEN v ELSE Min(v, n)      \* str(v)[:n], as a length
Take(s, n) == SubSeq(s, 1, Min(n, Len(s)))               \* list[:n]

(* ------------------------------- state -------------------------------- *)
VARIABLES
    dirExists,      \* whether data/ exists
    dirEntries,     \* what data/ holds, in listing order
    pc,             \* position of the run
    files,          \* main: files
    idx,            \* main: position of file_path in files
    step,           \* try_read_file: which reader is next (1..4)
    df,             \* main: df
    file_format,    \* main: file_format
    text_columns,   \* main: text_columns
    jsonOut,        \* data_analysis_report.json
    mdOut,          \* data_analysis_report.md
    csvOut,         \* pesticide_data_sample.csv
    printed,        \* which of the closing messages were printed
    attempts,       \* every reader call made so far, in order
    calls           \* how often analyze_dataframe and save_report were entered

vars == <<dirExists, dirEntries, pc, files, idx, step, df, file_format,
          text_columns, jsonOut, mdOut, csvOut, printed, attempts, calls>>

env == <<dirExists, dirEntries>>
outs == <<jsonOut, mdOut, csvOut>>

Untouched == [state |-> "untouched"]
Partial == [state |-> "partial"]
Written(c) == [state |-> "written", content |-> c]

\* a listing of n files which each reader may accept or reject, all holding
\* SampleData
FlowListing(n, g, a) ==
    [i \in 1..n |-> [id |-> i, gzip |-> g[i], accepts |-> a[i], data |-> SampleData]]

\* a listing of one file holding dataset d
DataListing(a, d) == <<[id |-> 1, gzip |-> FALSE, accepts |-> a, data |-> d]>>

Init ==
    /\ \/ dirExists = FALSE /\ dirEntries = <<>>
       \/ /\ dirExists = TRUE
          /\ \E n \in 0..MaxFiles :
                \E g \in [1..n -> BOOLEAN], a \in [1..n -> SUBSET TagSet] :
                    dirEntries = FlowListing(n, g, a)
       \/ /\ dirExists = TRUE
          /\ \E a \in {{"parquet"}, {"csv", "excel"}}, d \in Datasets :
                dirEntries = DataListing(a, d)
    /\ pc = "main"
    /\ files = <<>>
    /\ idx = 0
    /\ step = 0
    /\ df = None
    /\ file_format = NoFormat
    /\ text_columns = <<>>
    /\ jsonOut = Untouched
    /\ mdOut = Untouched
    /\ csvOut = Untouched
    /\ printed = {}
    /\ attempts = <<>>
    /\ calls = [analyze |-> 0, save |-> 0]

(* -------------------------- find_data_files --------------------------- *)
find_data_files == IF dirExists THEN dirEntries ELSE <<>>

\* main up to the loop: list the files, stop with advice when there are none
Main ==
    /\ pc = "main"
    /\ files' = find_data_files
    /\ IF files' = <<>>
       THEN /\ printed' = printed \cup {"no_files_advice"}
            /\ pc' = "done"
            /\ UNCHANGED <<idx, step>>
       ELSE /\ pc' = "try_read_file"
            /\ idx' = 1
            /\ step' = 1
            /\ UNCHANGED printed
    /\ UNCHANGED <<env, df, file_format, text_columns, outs, attempts, calls>>

(* --------------------------- try_read_file ---------------------------- *)
file_path == files[idx]

Logged(tag, ok) == Append(attempts, [file |-> idx, fmt |-> tag, ok |-> ok])

\* a reader returned a DataFrame: return df, tag; main enters the if-branch
ReadOk(tag) ==
    /\ df' = DataFrame(file_path.data)
    /\ file_format' = tag
    /\ attempts' = Logged(tag, TRUE)
    /\ pc' = "analyze_dataframe"
    /\ UNCHANGED <<idx, step, printed>>

\* variant of ReadFailed: the failed reader is called a second time
ReadFailedRetry(tag) ==
    /\ attempts' = Logged(tag, FALSE)
    /\ step' = IF /\ attempts # <<>>
                  /\ attempts[Len(attempts)].file = idx
                  /\ attempts[Len(attempts)].fmt = tag
               THEN step + 1 ELSE step
    /\ UNCHANGED <<pc, idx, df, file_format, printed>>

\* a reader raised: the except clause prints and the next reader is tried
ReadFailed(tag) ==
    /\ attempts' = Logged(tag, FALSE)
    /\ step' = step + 1
    /\ UNCHANGED <<pc, idx, df, file_format, printed>>

\* variant of ProbeFailed: the guidance is printed for every unreadable file
ProbeFailedEager ==
    /\ printed' = printed \cup {"total_failure"}
    /\ IF idx < Len(files)
       THEN idx' = idx + 1 /\ step' = 1 /\ UNCHANGED pc
       ELSE pc' = "done" /\ UNCHANGED <<idx, step>>

\* variant of ProbeFailed: the loop is left at the first unreadable file
ProbeFailedStops ==
    /\ pc' = "done"
    /\ printed' = printed \cup {"total_failure"}
    /\ UNCHANGED <<idx, step>>

\* return None, None: main's loop takes the next file, or runs its else
\* clause when the listing is used up
ProbeFailed ==
    IF idx < Len(files)
    THEN /\ idx' = idx + 1
         /\ step' = 1
         /\ UNCHANGED <<pc, printed>>
    ELSE /\ pc' = "done"
         /\ printed' = printed \cup {"total_failure"}
         /\ UNCHANGED <<idx, step>>

ReadParquet ==
    /\ pc = "try_read_file" /\ step = 1
    /\ IF "parquet" \in file_path.accepts
       THEN ReadOk("parquet")
       ELSE ReadFailed("parquet")
    /\ UNCHANGED <<env, files, text_columns, outs, calls>>

\* variant of ReadCsv: a successful read_csv is reported under the next tag
ReadCsvMistagged ==
    /\ pc = "try_read_file" /\ step = 2
    /\ IF "csv" \in file_path.accepts
       THEN ReadOk("excel")
       ELSE ReadFailed("csv")
    /\ UNCHANGED <<env, files, text_columns, outs, calls>>

ReadCsv ==
    /\ pc = "try_read_file" /\ step = 2
    /\ IF "csv" \in file_path.accepts
       THEN ReadOk("csv")
       ELSE ReadFailed("csv")
    /\ UNCHANGED <<env, files, text_columns, outs, calls>>

\* variant of ReadExcel: the except clause returns an empty DataFrame
ReadExcelEmptyFrame ==
    /\ pc = "try_read_file" /\ step = 3
    /\ attempts' = Logged("excel", "excel" \in file_path.accepts)
    /\ df' = IF "excel" \in file_path.accepts
             THEN DataFrame(file_path.data)
             ELSE DataFrame([nrows |-> 0, kinds |-> <<>>])
    /\ file_format' = "excel"
    /\ pc' = "analyze_dataframe"
    /\ UNCHANGED <<idx, step, printed>>
    /\ UNCHANGED <<env, files, text_columns, outs, calls>>

ReadExcel ==
    /\ pc = "try_read_file" /\ step = 3
    /\ IF "excel" \in file_path.accepts
       THEN ReadOk("excel")
       ELSE /\ attempts' = Logged("excel", FALSE)
            /\ UNCHANGED <<df, file_format>>
            /\ IF file_path.gzip
               THEN step' = 4 /\ UNCHANGED <<pc, idx, printed>>
               ELSE ProbeFailed
    /\ UNCHANGED <<env, files, text_columns, outs, calls>>

ReadParquetGzip ==
    /\ pc = "try_read_file" /\ step = 4
    /\ IF "parquet.gzip" \in file_path.accepts
       THEN ReadOk("parquet.gzip")
       ELSE /\ attempts' = Logged("parquet.gzip", FALSE)
            /\ UNCHANGED <<df, file_format>>
            /\ ProbeFailed
    /\ UNCHANGED <<env, files, text_columns, outs, calls>>

(* ------------------------- analyze_dataframe -------------------------- *)
\* variant of TextColumns: every object column counts, sampled or not
TextColumnsAll(frame) ==
    SelectSeq(Columns(frame), LAMBDA c : frame.dtypes[c] = "object")

TextColumns(frame) ==
    SelectSeq(Columns(frame),
              LAMBDA c : /\ frame.dtypes[c] = "object"
                         /\ Len(head(Dropna(frame.data[c]), PreviewSamples)) > 0)

AnalyzeDataframe ==
    /\ pc = "analyze_dataframe"
    /\ text_columns' = TextColumns(df)
    /\ calls' = [calls EXCEPT !.analyze = @ + 1]
    /\ pc' = "save_json"
    /\ UNCHANGED <<env, files, idx, step, df, file_format, outs, printed, attempts>>

(* ---------------------------- save_report ----------------------------- *)
\* the report dictionary, with its sample_data filled in
Report(frame, tcols, path, fmt) ==
    [file_name |-> path.id,
     file_format |-> fmt,
     data_shape |-> [rows |-> frame.nrows, columns |-> Len(frame.dtypes)],
     columns |-> Columns(frame),
     dtypes |-> frame.dtypes,
     text_columns |-> tcols,
     sample_data |-> [c \in {tcols[i] : i \in 1..Len(Take(tcols, ReportTextCols))} |->
                        head(Dropna(frame.data[c]), ReportSamples)]]

\* variant of ProseSampleLines: as many samples as the JSON report takes
ProseSampleLinesThree(frame, c) ==
    LET samples == head(Dropna(frame.data[c]), ReportSamples)
    IN [j \in 1..Len(samples) |-> Truncate(samples[j], ProseTrunc)]

\* the sample lines of one section of the Markdown report
ProseSampleLines(frame, c) ==
    LET samples == head(Dropna(frame.data[c]), ProseSamples)
    IN [j \in 1..Len(samples) |-> Truncate(samples[j], ProseTrunc)]

\* what the Markdown report states
Prose(frame, tcols, path, fmt) ==
    [file_name |-> path.id,
     file_format |-> fmt,
     rows |-> frame.nrows,
     columns |-> Len(frame.dtypes),
     overview |-> [c \in 1..Len(frame.dtypes) |->
                     [col |-> c, dtype |-> frame.dtypes[c],
                      non_null |-> Count(frame.data[c])]],
     n_text |-> Len(tcols),
     sections |-> [i \in 1..Len(tcols) |->
                     [col |-> tcols[i],
                      samples |-> ProseSampleLines(frame, tcols[i])]]]

\* a write that raises leaves the file as it was (open failed) or cut short
Failed(out) == {out, Partial}

\* open("data_analysis_report.json", "w") and json.dump
SaveJson ==
    /\ pc = "save_json"
    /\ calls' = [calls EXCEPT !.save = @ + 1]
    /\ \/ /\ jsonOut' = Written(Report(df, text_columns, file_path, file_format))
          /\ pc' = "save_md"
       \/ /\ jsonOut' \in Failed(jsonOut)
          /\ pc' = "crashed"
    /\ UNCHANGED <<env, files, idx, step, df, file_format, text_columns,
                   mdOut, csvOut, printed, attempts>>

\* variant of SaveMd: a failed write is swallowed and the run goes on
SaveMdCaught ==
    /\ pc = "save_md"
    /\ \/ mdOut' = Written(Prose(df, text_columns, file_path, file_format))
       \/ mdOut' \in Failed(mdOut)
    /\ pc' = "save_csv"
    /\ UNCHANGED <<env, files, idx, step, df, file_format, text_columns,
                   jsonOut, csvOut, printed, attempts, calls>>

\* open("data_analysis_report.md", "w") and the writes into it
SaveMd ==
    /\ pc = "save_md"
    /\ \/ /\ mdOut' = Written(Prose(df, text_columns, file_path, file_format))
          /\ pc' = "save_csv"
       \/ /\ mdOut' \in Failed(mdOut)
          /\ pc' = "crashed"
    /\ UNCHANGED <<env, files, idx, step, df, file_format, text_columns,
                   jsonOut, csvOut, printed, attempts, calls>>

(* ------------------------- main: CSV sample --------------------------- *)
\* variant of CsvLines: the whole DataFrame is written, without head(100)
CsvLinesAllRows(frame) ==
    <<Columns(frame)>> \o
    [r \in 1..frame.nrows |-> [c \in 1..Len(frame.dtypes) |-> frame.data[c][r]]]

\* df.head(100).to_csv(index=False): the header line, then one line per row
CsvLines(frame) ==
    LET n == Min(SampleRows, frame.nrows)
    IN <<Columns(frame)>> \o
       [r \in 1..n |-> [c \in 1..Len(frame.dtypes) |-> frame.data[c][r]]]

\* variant of SaveCsv: the break is missing, the loop takes the next file
SaveCsvNoBreak ==
    /\ pc = "save_csv"
    /\ \/ /\ csvOut' = Written(CsvLines(df))
          /\ IF idx < Len(files)
             THEN /\ printed' = printed \cup {"next_steps"}
                  /\ pc' = "try_read_file" /\ idx' = idx + 1 /\ step' = 1
             ELSE /\ printed' = printed \cup {"next_steps", "total_failure"}
                  /\ pc' = "done" /\ UNCHANGED <<idx, step>>
       \/ /\ csvOut' \in Failed(csvOut)
          /\ pc' = "crashed"
          /\ UNCHANGED <<printed, idx, step>>
    /\ UNCHANGED <<env, files, df, file_format, text_columns,
                   jsonOut, mdOut, attempts, calls>>

\* the rest of the if-branch: write the sample, print the next steps, break
SaveCsv ==
    /\ pc = "save_csv"
    /\ \/ /\ csvOut' = Written(CsvLines(df))
          /\ printed' = printed \cup {"next_steps"}
          /\ pc' = "done"
       \/ /\ csvOut' \in Failed(csvOut)
          /\ pc' = "crashed"
          /\ UNCHANGED printed
    /\ UNCHANGED <<env, files, idx, step, df, file_format, text_columns,
                   jsonOut, mdOut, attempts, calls>>

Next ==
    \/ Main
    \/ ReadParquet
    \/ ReadCsv
    \/ ReadExcel
    \/ ReadParquetGzip
    \/ AnalyzeDataframe
    \/ SaveJson
    \/ SaveMd
    \/ SaveCsv

Spec == Init /\ [][Next]_vars

TypeOK ==
    /\ pc \in {"main", "try_read_file", "analyze_dataframe", "save_json",
               "save_md", "save_csv", "done", "crashed"}
    /\ idx \in 0..Len(files)
    /\ step \in 0..4
    /\ printed \subseteq {"no_files_advice", "total_failure", "next_steps"}

(* ====================== properties of the program ===================== *)
\* the readers try_read_file calls on file f
Attempted(f) ==
    {"parquet", "csv", "excel"} \cup (IF f.gzip THEN {"parquet.gzip"} ELSE {})

\* no reader that is called on f decodes it
FailsAll(f) == f.accepts \cap Attempted(f) = {}

Pos(tag) == CHOOSE i \in 1..Len(Tags) : Tags[i] = tag

AttemptsOn(i) == SelectSeq(attempts, LAMBDA a : a.file = i)

\* try_read_file has returned for the file at position i
ProbeOver(i) == i < idx \/ (i = idx /\ pc # "try_read_file")

Terminated == pc \in {"done", "crashed"}

AllFail == \A i \in 1..Len(dirEntries) : FailsAll(dirEntries[i])

OutputsUntouched == jsonOut = Untouched /\ mdOut = Untouched /\ csvOut = Untouched

\* C1: try_read_file calls the readers in the order parquet, csv, excel and,
\* for a name ending in .gzip only, parquet with the explicit engine; a
\* reader is called only after every earlier one failed, a failure never
\* ends the probe, the result is the DataFrame and tag of the first reader
\* that succeeds, and (None, None) exactly when every called reader failed.
\* A file parquet rejects and csv accepts is tagged csv.
C1_ProbeOrder ==
    \A i \in 1..Len(files) :
        LET f == files[i]
            log == AttemptsOn(i)
        IN /\ \A k \in 1..Len(log) :
                  /\ log[k].fmt = Tags[k]
                  /\ log[k].ok <=> (Tags[k] \in f.accepts)
                  /\ k < Len(log) => ~log[k].ok
                  /\ Tags[k] = "parquet.gzip" => f.gzip
           /\ (i <= idx /\ ProbeOver(i)) =>
                  IF FailsAll(f)
                  THEN /\ Len(log) = Cardinality(Attempted(f))
                       /\ i = idx => (df = None /\ file_format = NoFormat)
                  ELSE /\ i = idx
                       /\ log[Len(log)].ok
                       /\ file_format = log[Len(log)].fmt
                       /\ df = DataFrame(f.data)
                       /\ \A t \in f.accepts \cap Attempted(f) :
                              Pos(file_format) <= Pos(t)
                       /\ ("parquet" \notin f.accepts /\ "csv" \in f.accepts)
                              => file_format = "csv"

C1_Witness ==
    /\ pc = "analyze_dataframe"
    /\ file_format = "csv"
    /\ "excel" \in file_path.accepts
    /\ Len(AttemptsOn(idx)) = 2

\* C2: a file that fails every reader makes main's loop take the next file
\* of the listing; the total-failure guidance is printed if and only if the
\* listing is non-empty and every file in it failed, and the run then ends
\* normally.
C2_GuidanceIffAllFail ==
    /\ [](/\ "total_failure" \in printed =>
                (dirEntries # <<>> /\ AllFail /\ pc = "done")
          /\ (Terminated /\ dirExists /\ dirEntries # <<>> /\ AllFail) =>
                ("total_failure" \in printed /\ pc = "done"))
    /\ [][(/\ pc = "try_read_file"
           /\ FailsAll(file_path)
           /\ step = Cardinality(Attempted(file_path))
           /\ idx < Len(files))
          => (pc' = "try_read_file" /\ idx' = idx + 1 /\ step' = 1
              /\ "total_failure" \notin printed')]_vars

C2_Witness ==
    /\ pc = "done"
    /\ Len(files) = MaxFiles
    /\ "total_failure" \in printed
    /\ Len(attempts) >= 3 * MaxFiles

\* C3 as stated: when the first file of the listing fails every reader, the
\* guidance is printed at once and no later file is probed.
C3_Original ==
    (files # <<>> /\ FailsAll(files[1])) =>
        /\ idx = 1
        /\ ProbeOver(1) => "total_failure" \in printed

\* C3 as amended: when the first file fails every reader, the loop goes on
\* to the second file if there is one; the guidance is printed only after
\* every file of the listing has been probed and has failed, which is at
\* once only when the first file is the only one.
C3_Amended ==
    (files # <<>> /\ FailsAll(files[1]) /\ ProbeOver(1)) =>
        IF Len(files) = 1
        THEN "total_failure" \in printed /\ pc = "done"
        ELSE /\ idx >= 2
             /\ "total_failure" \in printed =>
                   /\ idx = Len(files)
                   /\ \A i \in 1..Len(files) :
                          FailsAll(files[i]) /\ AttemptsOn(i) # <<>>

C3_Witness ==
    /\ Len(files) >= 2
    /\ FailsAll(files[1])
    /\ idx = 2
    /\ AttemptsOn(2) # <<>>
    /\ "total_failure" \notin printed

\* C4: at most one dataset is analysed and reported per run: the loop stops
\* at the first file, in listing order, that decodes, analyze_dataframe and
\* save_report are each entered at most once, and no file after the first
\* decoded one is probed.
C4_AtMostOneDataset ==
    /\ calls.analyze <= 1
    /\ calls.save <= 1
    /\ \A k \in 1..Len(attempts) :
           attempts[k].ok =>
               /\ k = Len(attempts)
               /\ attempts[k].file = idx
               /\ \A i \in 1..(idx - 1) : FailsAll(files[i])
    /\ df # None => \A a \in 1..Len(attempts) : attempts[a].file <= idx
    /\ calls.analyze = 1 => (df # None /\ ~FailsAll(file_path))

C4_Witness ==
    /\ pc = "done"
    /\ calls.analyze = 1
    /\ calls.save = 1
    /\ idx < Len(files)
    /\ ~FailsAll(files[idx + 1])

\* C5: no output file is written unless some file of the listing decoded:
\* when data/ is missing, is empty, or holds only files that no reader
\* decodes, the run ends without an error and leaves the three output files
\* untouched.
C5_NoOutputWithoutDecode ==
    /\ ~OutputsUntouched =>
           (dirExists /\ \E i \in 1..Len(dirEntries) : ~FailsAll(dirEntries[i]))
    /\ (~dirExists \/ dirEntries = <<>> \/ AllFail) =>
           /\ OutputsUntouched
           /\ pc # "crashed"
           /\ calls = [analyze |-> 0, save |-> 0]
           /\ df = None

C5_Witness ==
    /\ pc = "done"
    /\ dirEntries # <<>>
    /\ AllFail
    /\ \E i \in 1..Len(dirEntries) : "parquet.gzip" \in dirEntries[i].accepts
    /\ OutputsUntouched

\* the columns of object dtype, and those among them holding some value
ObjectCols(frame) == {c \in 1..Len(frame.dtypes) : frame.dtypes[c] = "object"}
SampledCols(frame) == {c \in ObjectCols(frame) : Count(frame.data[c]) > 0}

\* C6 as stated: for a dataset with M object columns, text_columns has
\* length exactly M, and the sample_data of the JSON report has at most
\* min(M, 5) entries of at most 3 values each.
C6_Original ==
    calls.analyze = 1 =>
        /\ Len(text_columns) = Cardinality(ObjectCols(df))
        /\ jsonOut.state = "written" =>
               LET sd == jsonOut.content.sample_data
               IN /\ Cardinality(DOMAIN sd)
                        <= Min(Cardinality(ObjectCols(df)), ReportTextCols)
                  /\ \A c \in DOMAIN sd : Len(sd[c]) <= ReportSamples

\* C6 as amended: text_columns lists, in column order, exactly the object
\* columns that hold at least one non-missing value, so its length is at
\* most M and is below M when an object column is entirely missing; the
\* sample_data of the JSON report has exactly min(len(text_columns), 5)
\* entries, each of 1 to 3 values.
C6_Amended ==
    calls.analyze = 1 =>
        /\ Len(text_columns) = Cardinality(SampledCols(df))
        /\ {text_columns[i] : i \in 1..Len(text_columns)} = SampledCols(df)
        /\ \A i \in 1..(Len(text_columns) - 1) : text_columns[i] < text_columns[i + 1]
        /\ Len(text_columns) <= Cardinality(ObjectCols(df))
        /\ jsonOut.state = "written" =>
               LET sd == jsonOut.content.sample_data
               IN /\ jsonOut.content.text_columns = text_columns
                  /\ Cardinality(DOMAIN sd) = Min(Len(text_columns), ReportTextCols)
                  /\ Cardinality(DOMAIN sd)
                        <= Min(Cardinality(ObjectCols(df)), ReportTextCols)
                  /\ \A c \in DOMAIN sd :
                        Len(sd[c]) >= 1 /\ Len(sd[c]) <= ReportSamples

C6_Witness ==
    /\ jsonOut.state = "written"
    /\ Cardinality(ObjectCols(df)) > ReportTextCols
    /\ Len(text_columns) < Cardinality(ObjectCols(df))
    /\ Len(text_columns) = ReportTextCols
    /\ Cardinality(DOMAIN jsonOut.content.sample_data) = ReportTextCols

\* the columns the Markdown report writes samples for
ProseCols(prose) ==
    {prose.sections[i].col : i \in {j \in 1..Len(prose.sections) :
                                       prose.sections[j].samples # <<>>}}

\* C7 as stated: the Markdown report holds the same facts as the JSON
\* report: the same set of text columns with samples, and for each column
\* the same sample values, each cut to 200 characters in the Markdown.
C7_Original ==
    (jsonOut.state = "written" /\ mdOut.state = "written") =>
        LET sd == jsonOut.content.sample_data
            secs == mdOut.content.sections
        IN /\ ProseCols(mdOut.content) = DOMAIN sd
           /\ \A i \in 1..Len(secs) :
                  secs[i].col \in DOMAIN sd =>
                      secs[i].samples =
                          [j \in 1..Len(sd[secs[i].col]) |->
                              Truncate(sd[secs[i].col][j], ProseTrunc)]

\* C7 as amended: the Markdown report has one section for every text
\* column, while the JSON report samples only the first 5 of them; for each
\* column the JSON report samples, the Markdown section holds the first 2 of
\* its up to 3 JSON samples, each cut to 200 characters.  The file name,
\* format and shape are the same in both.
C7_Amended ==
    (jsonOut.state = "written" /\ mdOut.state = "written") =>
        LET js == jsonOut.content
            md == mdOut.content
            sd == js.sample_data
            secs == md.sections
        IN /\ [i \in 1..Len(secs) |-> secs[i].col] = js.text_columns
           /\ md.n_text = Len(js.text_columns)
           /\ DOMAIN sd = {secs[i].col : i \in 1..Min(Len(secs), ReportTextCols)}
           /\ DOMAIN sd \subseteq ProseCols(md)
           /\ \A i \in 1..Len(secs) :
                  secs[i].col \in DOMAIN sd =>
                      secs[i].samples =
                          [j \in 1..Min(Len(sd[secs[i].col]), ProseSamples) |->
                              Truncate(sd[secs[i].col][j], ProseTrunc)]
           /\ md.file_name = js.file_name
           /\ md.file_format = js.file_format
           /\ md.rows = js.data_shape.rows
           /\ md.columns = js.data_shape.columns

C7_Witness ==
    /\ jsonOut.state = "written"
    /\ mdOut.state = "written"
    /\ Len(mdOut.content.sections) > ReportTextCols
    /\ \E c \in DOMAIN jsonOut.content.sample_data :
           /\ Len(jsonOut.content.sample_data[c]) = ReportSamples
           /\ \E j \in 1..ProseSamples :
                  jsonOut.content.sample_data[c][j] > ProseTrunc

\* C8: after a run that decoded a dataset of R rows, the CSV sample holds
\* one header line followed by exactly min(R, 100) data lines, which are the
\* first min(R, 100) rows of the dataset in their order, with every column
\* in the order of the dataset.
C8_CsvSample ==
    csvOut.state = "written" =>
        LET lines == csvOut.content
            n == IF df.nrows < SampleRows THEN df.nrows ELSE SampleRows
        IN /\ Len(lines) = 1 + n
           /\ lines[1] = Columns(df)
           /\ \A r \in 1..n :
                  /\ Len(lines[r + 1]) = Len(df.dtypes)
                  /\ \A c \in 1..Len(df.dtypes) : lines[r + 1][c] = df.data[c][r]

C8_Witness ==
    /\ pc = "done"
    /\ csvOut.state = "written"
    /\ df.nrows > SampleRows
    /\ Len(df.dtypes) = WideCols
    /\ Len(csvOut.content) = SampleRows + 1

\* C9: the outputs are written in the order JSON, Markdown, CSV; a failed
\* write is not caught: the run ends there, no later output is written, no
\* further file is probed, neither the next steps nor the guidance is
\* printed, and outputs written before stay as written.
C9_WriteFailureAborts ==
    /\ [](/\ mdOut # Untouched => jsonOut.state = "written"
          /\ csvOut # Untouched => mdOut.state = "written"
          /\ pc = "crashed" =>
                /\ printed = {}
                /\ csvOut.state # "written"
                /\ attempts # <<>>
                /\ attempts[Len(attempts)].ok
                /\ attempts[Len(attempts)].file = idx)
    /\ [][/\ (pc = "save_json" /\ jsonOut'.state # "written") =>
                (pc' = "crashed" /\ UNCHANGED <<mdOut, csvOut>>)
          /\ (pc = "save_md" /\ mdOut'.state # "written") =>
                (pc' = "crashed" /\ UNCHANGED <<jsonOut, csvOut>>)
          /\ (pc = "save_csv" /\ csvOut'.state # "written") =>
                (pc' = "crashed" /\ UNCHANGED <<jsonOut, mdOut>>)
          /\ pc = "crashed" => UNCHANGED vars]_vars

C9_Witness ==
    /\ pc = "crashed"
    /\ jsonOut.state = "written"
    /\ mdOut = Partial
    /\ csvOut = Untouched
    /\ idx < Len(files)

\* C10: nothing is retried: each file is probed at most once and each
\* reader is called at most once per file; a failed call is followed only
\* by the next reader on the same file or by the first reader on the next
\* file.
C10_NoRetry ==
    /\ \A j, k \in 1..Len(attempts) :
           (attempts[j].file = attempts[k].file /\ attempts[j].fmt = attempts[k].fmt)
               => j = k
    /\ \A k \in 1..(Len(attempts) - 1) :
           LET a == attempts[k]
               b == attempts[k + 1]
           IN /\ ~a.ok
              /\ \/ b.file = a.file /\ Pos(b.fmt) = Pos(a.fmt) + 1
                 \/ b.file = a.file + 1 /\ Pos(b.fmt) = 1
    /\ attempts # <<>> => (attempts[1].file = 1 /\ Pos(attempts[1].fmt) = 1)

C10_Witness ==
    /\ Len(attempts) = 4 * MaxFiles
    /\ \A k \in 1..Len(attempts) : ~attempts[k].ok
=============================================================================
